---- MODULE Spec2Model ----
(***************************************************************************)
(* A byte-level model of ssv<Bufsize, Index> (src/ssv.hpp): the packed     *)
(* length bitmap, the inline buffer with the aliased heap pointer slot,    *)
(* the spill block (payload growing up, 8-byte offsets growing down) and   *)
(* the operations of the container.                                        *)
(*                                                                         *)
(* Memory is modelled as it is laid out.  An object is its index word      *)
(* (inplace, lengths) and `store`, the bytes that follow the index word:   *)
(* data[] is store[1..B], datasmol[] is store[1..B-8], and the heap        *)
(* pointer occupies store[HeapOff+1..HeapOff+8].  A spill block is its     *)
(* header (capacity, nstrings) and `area`, the capacity-16 bytes after it. *)
(* u64 quantities are kept modulo WordMod (every in-range quantity of the  *)
(* model is far below it), so that unsigned wrap-around is visible.        *)
(***************************************************************************)
EXTENDS Integers, Sequences, FiniteSets, TLC

VARIABLES cfg, objs, blocks, abs, last, ub, steps

vars == <<cfg, objs, blocks, abs, last, ub, steps>>

(***************************************************************************)
(* Bounds of the model.                                                    *)
(***************************************************************************)
MaxPush == 5
MaxSeq == 5
MaxOwn == 4
MaxAlloc == 4
MaxWide == 3
MaxBlocks == 3
LongLen == 33
WordMod == 16777216

(***************************************************************************)
(* Program constants.                                                      *)
(***************************************************************************)
PtrSize == 8
HeaderSize == 16
OffSize == 8
ByteMod == 256

\* Byte values that are not string bytes: an uninitialised byte, and the
\* bytes of a pointer to block p (all eight are PtrBase + p; the null
\* pointer is eight zero bytes).
Junk == 99
PtrBase == 100
NullPtr == 0
WildPtr == 0 - 1
Garbage == << 0 - 1 >>

\* The configurations <<Bufsize, sizeof(Index)>> the model is checked for.
Configs == { <<14, 2>>, <<16, 2>> }

\* Configurations with a large buffer: fields of 8 bits (B < 256) and of 9
\* bits (B >= 256), both with a 32-bit Index.
WideConfigs == { <<200, 4>>, <<300, 4>> }

RECURSIVE Pow2(_)
Pow2(n) == IF n = 0 THEN 1 ELSE 2 * Pow2(n - 1)

RECURSIVE BitWidth(_)
BitWidth(n) == IF n = 0 THEN 0 ELSE 1 + BitWidth(n \div 2)

Min(a, b) == IF a < b THEN a ELSE b
RoundUp8(n) == ((n + 7) \div 8) * 8
Wrap(x) == x % WordMod

B == cfg[1]
IndexBytes == cfg[2]
bits == BitWidth(B)
mask == Pow2(bits) - 1
Maxstrings == (IndexBytes * 8 - 1) \div bits
bitmask_size == Maxstrings * bits
fullmask == Pow2(bitmask_size) - 1

\* Layout of the second struct of the union, relative to the end of the
\* index word: datasmol, padding up to pointer alignment, heap.
SmolSize == B - PtrSize
HeapOff == RoundUp8(IndexBytes + SmolSize) - IndexBytes
StoreLen == HeapOff + PtrSize
SizeofThis == IndexBytes + StoreLen

(***************************************************************************)
(* The bitmap codec.                                                       *)
(***************************************************************************)
Field(lens, j) == (lens \div Pow2(bits * j)) % Pow2(bits)
SetField(lens, j, v) == lens - Field(lens, j) * Pow2(bits * j) + v * Pow2(bits * j)

RECURSIVE DecodeFrom(_, _, _, _, _)
DecodeFrom(lens, j, i, totalsize, lenarray) ==
    IF j >= Maxstrings
    THEN [nfields |-> i, size |-> totalsize, lenarray |-> lenarray]
    ELSE LET l == Field(lens, j) % ByteMod
             valid == IF l # mask THEN 1 ELSE 0
         IN DecodeFrom(lens, j + 1, (i + valid) % ByteMod,
                       (totalsize + valid * (l + 1)) % ByteMod,
                       Append(lenarray, l))

\* lenarray is 1-based here: lenarray[j + 1] is the code's lenarray[j].
inplace_decode(o) == DecodeFrom(o.lengths, 0, 0, 0, << >>)

(***************************************************************************)
(* The spill block (heapvec).  area[k + 1] is the byte at data() + k; the  *)
(* offset table occupies the last bytes of the area, entry idx at          *)
(* Len(area) - 8 * (idx + 1), little-endian.                               *)
(***************************************************************************)
ZeroBytes(n) == [k \in 1..n |-> 0]

LEByte(v, k) ==
    IF k = 0 THEN v % ByteMod
    ELSE IF k = 1 THEN (v \div ByteMod) % ByteMod
    ELSE IF k = 2 THEN (v \div (ByteMod * ByteMod)) % ByteMod
    ELSE 0

\* The u64 at byte position pos; a value too large for the model's word
\* (a high byte set) reads as the largest word.
ReadU64(area, pos) ==
    IF \E k \in 3..(OffSize - 1) : area[pos + k + 1] # 0
    THEN WordMod - 1
    ELSE Min(WordMod - 1,
             area[pos + 1] + ByteMod * area[pos + 2]
                 + ByteMod * ByteMod * area[pos + 3])

WriteU64(area, pos, v) ==
    [k \in 1..Len(area) |->
        IF pos < k /\ k <= pos + OffSize THEN LEByte(v, k - pos - 1) ELSE area[k]]

WriteBytes(area, pos, s) ==
    [k \in 1..Len(area) |->
        IF pos < k /\ k <= pos + Len(s) THEN s[k - pos]
        ELSE IF k = pos + Len(s) + 1 THEN 0
        ELSE area[k]]

OffPos(hv, idx) == Len(hv.area) - OffSize * (idx + 1)
OffInBlock(hv, idx) == OffPos(hv, idx) >= 0

offset(hv, idx) ==
    IF OffInBlock(hv, idx) THEN ReadU64(hv.area, OffPos(hv, idx)) ELSE WordMod - 1

heapvec_fullsize(hv) == IF hv.nstrings = 0 THEN 0 ELSE offset(hv, hv.nstrings - 1)

usable(hv) ==
    Wrap(hv.capacity - HeaderSize - heapvec_fullsize(hv) - hv.nstrings * OffSize)

\* Whether fullsize(), and so usable(), reads its table entry inside the
\* block.
UsableInBlock(hv) == hv.nstrings = 0 \/ OffInBlock(hv, hv.nstrings - 1)

\* A string_view of len bytes at data() + start; a view that leaves the
\* block reads memory the block does not own.
View(area, start, len) ==
    IF start + len <= Len(area) THEN [k \in 1..len |-> area[start + k]] ELSE Garbage

heapvec_index(hv, idx) ==
    IF ~OffInBlock(hv, idx) THEN Garbage
    ELSE IF idx = 0 THEN View(hv.area, 0, Wrap(offset(hv, 0) - 1))
    ELSE View(hv.area, offset(hv, idx - 1),
              Wrap(offset(hv, idx) - offset(hv, idx - 1) - 1))

\* The bytes append writes: the payload and its NUL at fullsize(), then the
\* new table entry.  Bytes that fall outside the block are not the block's.
AppendWrites(hv, s) ==
    LET off == heapvec_fullsize(hv)
        a1 == WriteBytes(hv.area, off, s)
    IN WriteU64(a1, OffPos(hv, hv.nstrings), Wrap(off + Len(s) + 1))

AppendInBlock(hv, s) ==
    /\ hv.nstrings = 0 \/ OffInBlock(hv, hv.nstrings - 1)
    /\ heapvec_fullsize(hv) + Len(s) + 1 <= Len(hv.area)
    /\ OffInBlock(hv, hv.nstrings)

heapvec_append(hv, s) ==
    [hv EXCEPT !.area = AppendWrites(hv, s), !.nstrings = Wrap(hv.nstrings + 1)]

(***************************************************************************)
(* The heap: blocks[p] for p in 1..MaxBlocks.  A block is "unalloc" until  *)
(* an allocation returns it, then "live", then "freed"; identifiers are    *)
(* never reused, so a stale pointer is always recognised.                  *)
(***************************************************************************)
BlockIds == 1..MaxBlocks
NoBlock == [st |-> "unalloc", capacity |-> 0, nstrings |-> 0, area |-> << >>]
FreedBlock == [st |-> "freed", capacity |-> 0, nstrings |-> 0, area |-> << >>]

CanAlloc(blks) == \E p \in BlockIds : blks[p].st = "unalloc"
FreshId(blks) ==
    IF CanAlloc(blks)
    THEN CHOOSE p \in BlockIds :
            /\ blks[p].st = "unalloc"
            /\ \A q \in BlockIds : q < p => blks[q].st # "unalloc"
    ELSE 0

IsLive(blks, p) == p \in BlockIds /\ blks[p].st = "live"

\* free(p): free(nullptr) does nothing; anything but a live block is an
\* invalid or double free.
FreeOk(blks, p) == p = NullPtr \/ IsLive(blks, p)
Free(blks, p) == IF IsLive(blks, p) THEN [blks EXCEPT ![p] = FreedBlock] ELSE blks

(***************************************************************************)
(* The object.  heap is read from, and written to, the bytes of store it   *)
(* occupies, so that it aliases the tail of data[].                        *)
(***************************************************************************)
HeapSlot == (HeapOff + 1)..(HeapOff + PtrSize)
SmolSlot == 1..SmolSize
DataSlot == 1..B

heap(o) ==
    LET b == o.store[HeapOff + 1]
    IN IF \A k \in HeapSlot : o.store[k] = 0 THEN NullPtr
       ELSE IF b > PtrBase /\ \A k \in HeapSlot : o.store[k] = b THEN b - PtrBase
       ELSE WildPtr

SetHeap(store, p) ==
    [k \in 1..StoreLen |-> IF k \in HeapSlot THEN PtrBase + p ELSE store[k]]

\* The bytes of a freshly constructed object: data{} zero-initialises
\* data[]; what lies beyond data[] is not initialised.
FreshStore == [k \in 1..StoreLen |-> IF k \in DataSlot THEN 0 ELSE Junk]

DeadObj == [live |-> FALSE, inplace |-> 1, lengths |-> 0, store |-> << >>]

\* ssv()
DefaultObj == [live |-> TRUE, inplace |-> 1, lengths |-> fullmask, store |-> FreshStore]

HeapValid(o, blks) == IsLive(blks, heap(o))

\* Cumulative inline offset of field i (0-based): the sum of len + 1 over
\* the fields before it.
RECURSIVE Cum(_, _)
Cum(d, i) == IF i = 0 THEN 0 ELSE Cum(d, i - 1) + d.lenarray[i] + 1

\* operator[] on the inline region: lenarray[idx] bytes at data[offset].
InlineView(o, d, idx) ==
    LET off == Cum(d, idx)
        len == d.lenarray[idx + 1]
    IN IF off + len <= B THEN [k \in 1..len |-> o.store[off + k]] ELSE Garbage

\* operator[]
At(o, blks, idx) ==
    LET d == inplace_decode(o)
    IN IF idx < d.nfields THEN InlineView(o, d, idx)
       ELSE IF HeapValid(o, blks) THEN heapvec_index(blks[heap(o)], idx - d.nfields)
       ELSE Garbage

\* size(); reading through an invalid heap pointer gives no defined value.
Size(o, blks) ==
    LET d == inplace_decode(o)
    IN IF o.inplace = 1 THEN d.nfields
       ELSE IF HeapValid(o, blks) THEN Wrap(d.nfields + blks[heap(o)].nstrings)
       ELSE 0 - 1

\* fullsize(); reading a table entry outside the block gives no defined
\* value either.
Fullsize(o, blks) ==
    LET d == inplace_decode(o)
    IN IF o.inplace = 1 THEN d.size
       ELSE IF HeapValid(o, blks) /\ UsableInBlock(blks[heap(o)])
            THEN Wrap(d.size + heapvec_fullsize(blks[heap(o)]))
            ELSE 0 - 1

isinplace(o) == o.inplace = 1
isonheap(o) == o.inplace = 0

(***************************************************************************)
(* push_back.  Every operation below yields the object and the heap after  *)
(* it, with ub naming the undefined behaviour it ran into ("none" if       *)
(* none): an access outside a block, or through a pointer to no live       *)
(* block, or an invalid free.  Then the fields are what the defined part   *)
(* of the operation produced.                                              *)
(***************************************************************************)
Result(o, blks, u) == [o |-> o, blks |-> blks, ub |-> u]

WriteData(store, pos, s) ==
    [k \in 1..StoreLen |->
        IF k > B THEN store[k]
        ELSE IF pos < k /\ k <= pos + Len(s) THEN s[k - pos]
        ELSE IF k = pos + Len(s) + 1 THEN 0
        ELSE store[k]]

\* Case A: the string fits in place.
FitsInPlaceStrict(d, s) == d.nfields < Maxstrings /\ d.size + Len(s) + 1 < B

FitsInPlace(d, s) == d.nfields < Maxstrings /\ d.size + Len(s) + 1 <= B

PushInPlace(o, d, s) ==
    [o EXCEPT !.lengths = SetField(o.lengths, d.nfields, Len(s)),
              !.store = WriteData(o.store, d.size, s)]

\* Case B: which inline strings overlap the pointer, and the block size.
MustMoveFieldPastData(d, i) == Cum(d, i + 1) > B

MustMoveField(d, i) == Cum(d, i + 1) > SmolSize

mustmove_none(d) == Maxstrings

mustmove(d) ==
    IF \E i \in 0..(d.nfields - 1) : MustMoveField(d, i)
    THEN CHOOSE i \in 0..(d.nfields - 1) :
            /\ MustMoveField(d, i)
            /\ \A j \in 0..(i - 1) : ~MustMoveField(d, j)
    ELSE Maxstrings

RECURSIVE MovedBytes(_, _)
MovedBytes(d, i) ==
    IF i = 0 THEN 0
    ELSE MovedBytes(d, i - 1)
         + (IF MustMoveField(d, i - 1) THEN d.lenarray[i] + 1 + OffSize ELSE 0)

spaceneeded(d, s) ==
    LET need == Len(s) + 1 + OffSize + HeaderSize + MovedBytes(d, d.nfields)
    IN RoundUp8(IF need < SizeofThis THEN SizeofThis ELSE need)

\* The string the eviction loop hands to append: lenarray[i] bytes at
\* data[offsets[i]], where offsets[] is an array of u8.
EvictedView(o, d, idx) ==
    LET off == Cum(d, idx) % ByteMod
        len == d.lenarray[idx + 1]
    IN IF off + len <= B THEN [k \in 1..len |-> o.store[off + k]] ELSE Garbage

\* The eviction loop: fields mustmove..nfields-1 become sentinels and their
\* strings are appended to the new block.
RECURSIVE Evict(_, _, _, _)
Evict(o, d, m, acc) ==
    IF m = Maxstrings \/ m >= d.nfields THEN acc
    ELSE Evict(o, d, m + 1,
               [lengths |-> SetField(acc.lengths, m, mask),
                hv |-> heapvec_append(acc.hv, EvictedView(o, d, m)),
                ok |-> acc.ok /\ AppendInBlock(acc.hv, EvictedView(o, d, m))])

PushTransition(o, blks, d, s) ==
    LET p == FreshId(blks)
        cap == spaceneeded(d, s)
        hv0 == [st |-> "live", capacity |-> cap, nstrings |-> 0,
                area |-> ZeroBytes(cap - HeaderSize)]
        ev == Evict(o, d, mustmove(d), [lengths |-> o.lengths, hv |-> hv0, ok |-> TRUE])
        ok == ev.ok /\ AppendInBlock(ev.hv, s)
        o2 == [o EXCEPT !.inplace = 0, !.lengths = ev.lengths,
                        !.store = SetHeap(o.store, p)]
    IN Result(o2, [blks EXCEPT ![p] = heapvec_append(ev.hv, s)],
              IF ok THEN "none" ELSE "out-of-block")

\* Case C: the block is replaced by one of twice the capacity when the
\* string does not fit, once; then the string is appended.
NeedsGrowth(hv, s) == Len(s) + 1 + OffSize > usable(hv)

RECURSIVE CopyOffsetsByMemcpy(_, _, _, _)
CopyOffsetsByMemcpy(area, old, new, i) ==
    IF i = 0 THEN area
    ELSE WriteU64(CopyOffsetsByMemcpy(area, old, new, i - 1),
                  OffPos(old, i - 1), offset(old, i - 1))

RECURSIVE CopyOffsets(_, _, _, _)
CopyOffsets(area, old, new, i) ==
    IF i = 0 THEN area
    ELSE WriteU64(CopyOffsets(area, old, new, i - 1),
                  OffPos(new, i - 1), offset(old, i - 1))

GrowCopyInBlock(old) ==
    /\ old.nstrings * OffSize <= Len(old.area)
    /\ heapvec_fullsize(old) <= Len(old.area)

GrownLikeRealloc(old) ==
    [st |-> "live", capacity |-> old.capacity * 2, nstrings |-> old.nstrings,
     area |-> old.area \o ZeroBytes(old.capacity)]

Grown(old) ==
    LET cap == old.capacity * 2
        new0 == [st |-> "live", capacity |-> cap, nstrings |-> old.nstrings,
                 area |-> ZeroBytes(cap - HeaderSize)]
        a1 == CopyOffsets(new0.area, old, new0, old.nstrings)
        fs == heapvec_fullsize(old)
    IN [new0 EXCEPT !.area = [k \in 1..Len(a1) |-> IF k <= fs THEN old.area[k] ELSE a1[k]]]

PushSpill(o, blks, s) ==
    LET h == heap(o)
        old == blks[h]
    IN IF ~HeapValid(o, blks) THEN Result(o, blks, "bad-pointer")
       ELSE IF NeedsGrowth(old, s)
       THEN IF ~GrowCopyInBlock(old) THEN Result(o, blks, "out-of-block")
            ELSE LET p == FreshId(blks)
                     new == Grown(old)
                 IN Result([o EXCEPT !.store = SetHeap(o.store, p)],
                           [blks EXCEPT ![h] = FreedBlock, ![p] = heapvec_append(new, s)],
                           IF AppendInBlock(new, s) THEN "none" ELSE "out-of-block")
       ELSE Result(o, [blks EXCEPT ![h] = heapvec_append(old, s)],
                   IF AppendInBlock(old, s) THEN "none" ELSE "out-of-block")

\* Whether the call allocates (the model has a bounded supply of blocks).
PushAllocates(o, blks, s) ==
    IF o.inplace = 1 THEN ~FitsInPlace(inplace_decode(o), s)
    ELSE HeapValid(o, blks) /\ NeedsGrowth(blks[heap(o)], s)
             /\ GrowCopyInBlock(blks[heap(o)])

push_back_promoting(o, blks, s) ==
    LET d == inplace_decode(o)
    IN IF FitsInPlace(d, s) THEN Result(PushInPlace(o, d, s), blks, "none")
       ELSE IF o.inplace = 1 THEN PushTransition(o, blks, d, s)
       ELSE PushSpill(o, blks, s)

push_back(o, blks, s) ==
    IF o.inplace = 1
    THEN LET d == inplace_decode(o)
         IN IF FitsInPlace(d, s) THEN Result(PushInPlace(o, d, s), blks, "none")
            ELSE PushTransition(o, blks, d, s)
    ELSE PushSpill(o, blks, s)

(***************************************************************************)
(* pop_back, resize, destruction, copy and move.                           *)
(***************************************************************************)
pop_back_inline_only(o, blks) ==
    IF o.inplace = 1
    THEN Result([o EXCEPT !.lengths =
                    SetField(o.lengths, inplace_decode(o).nfields - 1, mask)],
                blks, "none")
    ELSE Result(o, blks, "none")

pop_back_shrinking(o, blks) ==
    IF o.inplace = 1
    THEN Result([o EXCEPT !.lengths =
                    SetField(o.lengths, inplace_decode(o).nfields - 1, mask)],
                blks, "none")
    ELSE IF ~HeapValid(o, blks) THEN Result(o, blks, "bad-pointer")
    ELSE IF blks[heap(o)].nstrings = 1
    THEN Result([o EXCEPT !.inplace = 1], Free(blks, heap(o)), "none")
    ELSE Result(o, [blks EXCEPT ![heap(o)].nstrings = Wrap(@ - 1)], "none")

pop_back(o, blks) ==
    IF o.inplace = 1
    THEN LET d == inplace_decode(o)
         IN Result([o EXCEPT !.lengths = SetField(o.lengths, d.nfields - 1, mask)],
                   blks, "none")
    ELSE IF ~HeapValid(o, blks) THEN Result(o, blks, "bad-pointer")
    ELSE Result(o, [blks EXCEPT ![heap(o)].nstrings = Wrap(@ - 1)], "none")

RetireOnly(lens, i) == SetField(lens, i, mask)

RECURSIVE RetireFrom(_, _)
RetireFrom(lens, i) ==
    IF i >= Maxstrings THEN lens ELSE RetireFrom(SetField(lens, i, mask), i + 1)

\* resize(idx) throws when idx > size(); ResizeThrows says when.
ResizeThrows(o, blks, idx) == idx > Size(o, blks)

resize_unchecked(o, blks, idx) ==
    LET d == inplace_decode(o)
        onstack == d.nfields
        onheap == Wrap(Size(o, blks) - d.nfields)
        h == heap(o)
        o2 == IF onheap > 0 /\ idx <= onstack THEN [o EXCEPT !.inplace = 1] ELSE o
    IN Result(IF onstack > idx THEN [o2 EXCEPT !.lengths = RetireFrom(o2.lengths, idx)]
              ELSE o2,
              IF onheap = 0 \/ ~IsLive(blks, h) THEN blks
              ELSE IF idx > onstack
              THEN [blks EXCEPT ![h].nstrings = Wrap(@ - (idx - onstack))]
              ELSE Free(blks, h),
              "none")

resize(o, blks, idx) ==
    LET d == inplace_decode(o)
        sz == Size(o, blks)
        onstack == d.nfields
        onheap == Wrap(sz - d.nfields)
        h == heap(o)
        heapPart ==
            IF onheap > 0
            THEN IF idx > onstack
                 THEN Result(o, [blks EXCEPT ![h].nstrings = Wrap(@ - (idx - onstack))],
                             "none")
                 ELSE Result([o EXCEPT !.inplace = 1], Free(blks, h),
                             IF FreeOk(blks, h) THEN "none" ELSE "bad-free")
            ELSE Result(o, blks, "none")
        o2 == heapPart.o
    IN IF o.inplace = 0 /\ ~HeapValid(o, blks) THEN Result(o, blks, "bad-pointer")
       ELSE IF idx > sz THEN Result(o, blks, "none")
       ELSE Result(IF onstack > idx
                   THEN [o2 EXCEPT !.lengths = RetireFrom(o2.lengths, idx)]
                   ELSE o2,
                   heapPart.blks, heapPart.ub)

\* ~ssv()
Destroy(o, blks) ==
    IF o.inplace = 0
    THEN Result(DeadObj, Free(blks, heap(o)),
                IF FreeOk(blks, heap(o)) THEN "none" ELSE "bad-free")
    ELSE Result(DeadObj, blks, "none")

\* The three swaps of the move constructor and of both assignments:
\* datasmol, heap and index_storage.  What `a` holds afterwards.
SwapInto(a, b) ==
    [a EXCEPT !.inplace = b.inplace,
              !.lengths = b.lengths,
              !.store = [k \in 1..StoreLen |->
                            IF k \in SmolSlot \/ k \in HeapSlot
                            THEN b.store[k] ELSE a.store[k]]]

\* ssv(const ssv &other); the new block is blocks[p].
CopyAllocates(other) == other.inplace = 0

CopyObj(other, p) ==
    [live |-> TRUE, inplace |-> other.inplace, lengths |-> other.lengths,
     store |-> IF other.inplace = 1
               THEN [k \in 1..StoreLen |->
                        IF k \in DataSlot THEN other.store[k] ELSE FreshStore[k]]
               ELSE SetHeap([k \in 1..StoreLen |->
                                IF k \in SmolSlot THEN other.store[k] ELSE FreshStore[k]],
                            p)]

CopyConstruct(other, blks) ==
    IF other.inplace = 1 THEN Result(CopyObj(other, 0), blks, "none")
    ELSE IF ~HeapValid(other, blks) THEN Result(DeadObj, blks, "bad-pointer")
    ELSE LET p == FreshId(blks)
         IN Result(CopyObj(other, p), [blks EXCEPT ![p] = blks[heap(other)]], "none")

\* operator=(const ssv &other): copy into tmp, swap, destroy tmp.
CopyAssign(this, other, blks) ==
    LET c == CopyConstruct(other, blks)
        tmp == SwapInto(c.o, this)
        d == Destroy(tmp, c.blks)
    IN IF c.ub # "none" THEN Result(this, blks, c.ub)
       ELSE Result(SwapInto(this, c.o), d.blks, d.ub)

clear_by_resize(o, blks) == resize(o, blks, 0)

\* clear(): *this = {} move-assigns from a temporary ssv(), which is then
\* destroyed holding what this held.
clear(o, blks) ==
    LET d == Destroy(SwapInto(DefaultObj, o), blks)
    IN Result(SwapInto(o, DefaultObj), d.blks, d.ub)

\* ssv(ssv &&other) initialises neither the index word nor the pointer:
\* the new object's bits before the swaps are whatever the memory held,
\* except data[], which its default member initializer zeroes.
IndeterminateObjs ==
    { [live |-> TRUE, inplace |-> i, lengths |-> l,
       store |-> [k \in 1..StoreLen |-> IF k \in DataSlot THEN 0 ELSE x]] :
        i \in {0, 1}, l \in {0, fullmask}, x \in {0, Junk} }

(***************************************************************************)
(* Allocation failure.  push_back calls calloc before it writes anything   *)
(* to the object or to the old block, and throws std::bad_alloc when it    *)
(* returns null.  The copy constructor throws after malloc returns null;   *)
(* inside operator=(const ssv &), which is noexcept, that exception calls  *)
(* std::terminate: ub = "terminate" ends the run.                          *)
(***************************************************************************)
AttemptsAlloc(o, blks, s) ==
    IF o.inplace = 1 THEN ~FitsInPlace(inplace_decode(o), s)
    ELSE HeapValid(o, blks) /\ NeedsGrowth(blks[heap(o)], s)

push_back_nomem_marked(o, blks, s) == Result([o EXCEPT !.inplace = 0], blks, "none")

push_back_nomem(o, blks, s) ==
    Result(o, blks,
           IF o.inplace = 0 /\ ~UsableInBlock(blks[heap(o)])
           THEN "out-of-block" ELSE "none")

CopyAssignNoMem(this, other, blks) == Result(this, blks, "terminate")

(***************************************************************************)
(* The remaining observers.  empty() is given as the set of values it can  *)
(* return: both when it reads through a pointer to no live block.          *)
(***************************************************************************)
empty(o, blks) ==
    IF o.inplace = 1 THEN { Field(o.lengths, 0) = mask }
    ELSE IF HeapValid(o, blks) THEN { blks[heap(o)].nstrings = 0 }
    ELSE {TRUE, FALSE}

\* at(idx): returns the string, or throws std::out_of_range.
at(o, blks, idx) ==
    LET d == inplace_decode(o)
    IN IF idx < d.nfields
       THEN [returns |-> TRUE, val |-> At(o, blks, idx)]
       ELSE IF o.inplace = 0 /\ ~HeapValid(o, blks)
       THEN [returns |-> TRUE, val |-> Garbage]
       ELSE IF o.inplace = 0 /\ Wrap(idx - d.nfields) < blks[heap(o)].nstrings
       THEN [returns |-> TRUE,
             val |-> heapvec_index(blks[heap(o)], Wrap(idx - d.nfields))]
       ELSE [returns |-> FALSE, val |-> << >>]

front(o, blks) == At(o, blks, 0)

back_inline(o, blks) == At(o, blks, Wrap(inplace_decode(o).nfields - 1))

back(o, blks) == At(o, blks, Wrap(Size(o, blks) - 1))

\* Iteration from begin() to end(): pos runs from 0 until it equals size(),
\* and *it is (*ptr)[pos].
Iterate(o, blks) == [k \in 1..Size(o, blks) |-> At(o, blks, k - 1)]

\* ssv(first, last): a default-constructed ssv, then push_back(*first) for
\* each position.  `full` records that the model's heap ran out of blocks.
RECURSIVE PushAll(_, _)
PushAll(q, acc) ==
    IF q = << >> \/ acc.ub # "none" \/ acc.full THEN acc
    ELSE IF PushAllocates(acc.o, acc.blks, Head(q)) /\ ~CanAlloc(acc.blks)
    THEN [acc EXCEPT !.full = TRUE]
    ELSE LET r == push_back(acc.o, acc.blks, Head(q))
         IN PushAll(Tail(q), [o |-> r.o, blks |-> r.blks, ub |-> r.ub, full |-> FALSE])

RangeConstruct(q) ==
    PushAll(q, [o |-> DefaultObj, blks |-> [p \in BlockIds |-> NoBlock],
                ub |-> "none", full |-> FALSE])

\* push_back(s); pop_back(): which kind of push it was, and the result.
TriggersTransition(o, s) == o.inplace = 1 /\ ~FitsInPlace(inplace_decode(o), s)

TriggersGrowth(o, blks, s) ==
    o.inplace = 0 /\ HeapValid(o, blks) /\ NeedsGrowth(blks[heap(o)], s)

push_then_pop(o, blks, s) ==
    LET r == push_back(o, blks, s)
        q == pop_back(r.o, r.blks)
    IN Result(q.o, q.blks, IF r.ub # "none" THEN r.ub ELSE q.ub)

(***************************************************************************)
(* The state machine.  objs[o] are the ssv instances, abs[o] the plain     *)
(* sequence the same operations produce, last the operation just done.     *)
(* Once an operation has run into undefined behaviour, or has called       *)
(* std::terminate, the run ends.                                           *)
(***************************************************************************)
Objs == {1, 2}

\* The string of length L: byte i is (i + L) % 3, so it has embedded NULs
\* and a misplaced or truncated copy differs from it.
Str(L) == [i \in 1..L |-> (i + L) % 3]

PushLens == {0, 2, B - 1, B, LongLen}
SeqLens == {0, 2, B}
OwnLens == {B - 1, B}
AllocLens == {2, B}
WideLens == {0, 2, B - 1, B}

Op(name, o, src, n) == [op |-> name, obj |-> o, src |-> src, n |-> n]

Init ==
    /\ cfg \in Configs
    /\ objs = [o \in Objs |-> IF o = 1 THEN DefaultObj ELSE DeadObj]
    /\ blocks = [p \in BlockIds |-> NoBlock]
    /\ abs = [o \in Objs |-> << >>]
    /\ last = Op("init", 0, 0, 0)
    /\ ub = "none"
    /\ steps = 0

Apply(o, r) ==
    /\ objs' = [objs EXCEPT ![o] = r.o]
    /\ blocks' = r.blks
    /\ ub' = r.ub

Push(o, L) ==
    /\ ub = "none" /\ objs[o].live
    /\ PushAllocates(objs[o], blocks, Str(L)) => CanAlloc(blocks)
    /\ Apply(o, push_back(objs[o], blocks, Str(L)))
    /\ abs' = [abs EXCEPT ![o] = Append(@, Str(L))]
    /\ last' = Op("push", o, 0, L)
    /\ UNCHANGED cfg /\ steps' = steps + 1

Pop(o) ==
    /\ ub = "none" /\ objs[o].live
    /\ abs[o] # << >> /\ Size(objs[o], blocks) >= 1
    /\ Apply(o, pop_back(objs[o], blocks))
    /\ abs' = [abs EXCEPT ![o] = SubSeq(@, 1, Len(@) - 1)]
    /\ last' = Op("pop", o, 0, 0)
    /\ UNCHANGED cfg /\ steps' = steps + 1

Resize(o, n) ==
    /\ ub = "none" /\ objs[o].live
    /\ Apply(o, resize(objs[o], blocks, n))
    /\ abs' = [abs EXCEPT ![o] = IF n <= Len(@) THEN SubSeq(@, 1, n) ELSE @]
    /\ last' = IF ResizeThrows(objs[o], blocks, n)
               THEN Op("resize-throw", o, 0, 0) ELSE Op("resize", o, 0, n)
    /\ UNCHANGED cfg /\ steps' = steps + 1

Clear(o) ==
    /\ ub = "none" /\ objs[o].live
    /\ Apply(o, clear(objs[o], blocks))
    /\ abs' = [abs EXCEPT ![o] = << >>]
    /\ last' = Op("clear", o, 0, 0)
    /\ UNCHANGED cfg /\ steps' = steps + 1

Construct(o) ==
    /\ ub = "none" /\ ~objs[o].live
    /\ objs' = [objs EXCEPT ![o] = DefaultObj]
    /\ abs' = [abs EXCEPT ![o] = << >>]
    /\ last' = Op("construct", o, 0, 0)
    /\ UNCHANGED <<cfg, blocks, ub>> /\ steps' = steps + 1

Destruct(o) ==
    /\ ub = "none" /\ objs[o].live
    /\ Apply(o, Destroy(objs[o], blocks))
    /\ abs' = [abs EXCEPT ![o] = << >>]
    /\ last' = Op("destroy", o, 0, 0)
    /\ UNCHANGED cfg /\ steps' = steps + 1

CopyCtor(dst, src) ==
    /\ ub = "none" /\ ~objs[dst].live /\ objs[src].live
    /\ CopyAllocates(objs[src]) => CanAlloc(blocks)
    /\ Apply(dst, CopyConstruct(objs[src], blocks))
    /\ abs' = [abs EXCEPT ![dst] = abs[src]]
    /\ last' = Op("copy-construct", dst, src, 0)
    /\ UNCHANGED cfg /\ steps' = steps + 1

CopyAssignOp(dst, src) ==
    /\ ub = "none" /\ objs[dst].live /\ objs[src].live /\ dst # src
    /\ CopyAllocates(objs[src]) => CanAlloc(blocks)
    /\ Apply(dst, CopyAssign(objs[dst], objs[src], blocks))
    /\ abs' = [abs EXCEPT ![dst] = abs[src]]
    /\ last' = Op("copy-assign", dst, src, 0)
    /\ UNCHANGED cfg /\ steps' = steps + 1

MoveCtor(dst, src) ==
    /\ ub = "none" /\ ~objs[dst].live /\ objs[src].live
    /\ \E g \in IndeterminateObjs :
          objs' = [objs EXCEPT ![dst] = SwapInto(g, objs[src]),
                               ![src] = SwapInto(objs[src], g)]
    /\ abs' = [abs EXCEPT ![dst] = abs[src], ![src] = << >>]
    /\ last' = Op("move-construct", dst, src, 0)
    /\ UNCHANGED <<cfg, blocks, ub>> /\ steps' = steps + 1

MoveAssignOp(dst, src) ==
    /\ ub = "none" /\ objs[dst].live /\ objs[src].live /\ dst # src
    /\ objs' = [objs EXCEPT ![dst] = SwapInto(objs[dst], objs[src]),
                            ![src] = SwapInto(objs[src], objs[dst])]
    /\ abs' = [abs EXCEPT ![dst] = abs[src], ![src] = abs[dst]]
    /\ last' = Op("move-assign", dst, src, 0)
    /\ UNCHANGED <<cfg, blocks, ub>> /\ steps' = steps + 1

PushNoMem(o, L) ==
    /\ ub = "none" /\ objs[o].live
    /\ AttemptsAlloc(objs[o], blocks, Str(L))
    /\ Apply(o, push_back_nomem(objs[o], blocks, Str(L)))
    /\ last' = Op("push-nomem", o, 0, L)
    /\ UNCHANGED <<cfg, abs>> /\ steps' = steps + 1

CopyAssignNoMemOp(dst, src) ==
    /\ ub = "none" /\ objs[dst].live /\ objs[src].live /\ dst # src
    /\ CopyAllocates(objs[src]) /\ HeapValid(objs[src], blocks)
    /\ Apply(dst, CopyAssignNoMem(objs[dst], objs[src], blocks))
    /\ last' = Op("copy-assign-nomem", dst, src, 0)
    /\ UNCHANGED <<cfg, abs>> /\ steps' = steps + 1

\* One instance, push_back only.
NextPush == steps < MaxPush /\ \E L \in PushLens : Push(1, L)

SpecPush == Init /\ [][NextPush]_vars

\* One instance, the tail operations.
NextSeq ==
    /\ steps < MaxSeq
    /\ \/ \E L \in SeqLens : Push(1, L)
       \/ Pop(1)
       \/ \E n \in 0..MaxSeq : Resize(1, n)
       \/ Clear(1)

SpecSeq == Init /\ [][NextSeq]_vars

\* Several instances, with construction, copy, move and destruction.
Next ==
    /\ steps < MaxOwn
    /\ \/ \E o \in Objs, L \in OwnLens : Push(o, L)
       \/ \E o \in Objs : Pop(o)
       \/ \E o \in Objs, n \in 0..MaxOwn : Resize(o, n)
       \/ \E o \in Objs : Clear(o)
       \/ \E o \in Objs : Construct(o)
       \/ \E o \in Objs : Destruct(o)
       \/ \E dst \in Objs, src \in Objs : CopyCtor(dst, src)
       \/ \E dst \in Objs, src \in Objs : CopyAssignOp(dst, src)
       \/ \E dst \in Objs, src \in Objs : MoveCtor(dst, src)
       \/ \E dst \in Objs, src \in Objs : MoveAssignOp(dst, src)

Spec == Init /\ [][Next]_vars

\* Two instances, with allocations that can fail.
NextAlloc ==
    /\ steps < MaxAlloc
    /\ \/ \E o \in Objs, L \in AllocLens : Push(o, L)
       \/ \E o \in Objs, L \in AllocLens : PushNoMem(o, L)
       \/ \E o \in Objs : Construct(o)
       \/ \E dst \in Objs, src \in Objs : CopyAssignOp(dst, src)
       \/ \E dst \in Objs, src \in Objs : CopyAssignNoMemOp(dst, src)

SpecAlloc == Init /\ [][NextAlloc]_vars

\* One instance of a configuration with a large buffer.
InitWide ==
    /\ cfg \in WideConfigs
    /\ objs = [o \in Objs |-> IF o = 1 THEN DefaultObj ELSE DeadObj]
    /\ blocks = [p \in BlockIds |-> NoBlock]
    /\ abs = [o \in Objs |-> << >>]
    /\ last = Op("init", 0, 0, 0)
    /\ ub = "none"
    /\ steps = 0

NextWide ==
    /\ steps < MaxWide
    /\ \/ \E L \in WideLens : Push(1, L)
       \/ Pop(1)

SpecWide == InitWide /\ [][NextWide]_vars

(***************************************************************************)
(* What a caller observes of instance o.                                   *)
(***************************************************************************)
SizeOf(o) == Size(objs[o], blocks)
FullsizeOf(o) == Fullsize(objs[o], blocks)
Elem(o, i) == At(objs[o], blocks, i)

RECURSIVE TotalBytes(_)
TotalBytes(q) == IF q = << >> THEN 0 ELSE Len(Head(q)) + 1 + TotalBytes(Tail(q))

(***************************************************************************)
(* C1: after any sequence of push_back calls on an empty ssv, v[i] for     *)
(* every i < size() is exactly the i-th pushed string, bytes and length,   *)
(* wherever it is stored.                                                  *)
(***************************************************************************)
C1_PushedStringsReadBack ==
    \A i \in 0..(SizeOf(1) - 1) :
        i < Len(abs[1]) /\ Elem(1, i) = abs[1][i + 1]


(***************************************************************************)
(* C2: after any sequence of push_back, pop_back (on a non-empty ssv),     *)
(* resize and clear on an empty ssv, size() is the length of the plain     *)
(* sequence the same operations produce.                                   *)
(***************************************************************************)
C2_SizeIsAbstractLength == SizeOf(1) = Len(abs[1])

(***************************************************************************)
(* C3: with push_back only, isinplace() holds exactly when the pushed      *)
(* strings take at most B bytes (one NUL each) and are at most Maxstrings. *)
(***************************************************************************)
C3_InplaceIffFits ==
    isinplace(objs[1]) <=> (TotalBytes(abs[1]) <= B /\ Len(abs[1]) <= Maxstrings)

\* Maxstrings strings that fit the buffer are in place and one more spills,
\* the bytes still fitting.
C3_Witness ==
    /\ last.op = "push"
    /\ Len(abs[1]) = Maxstrings + 1
    /\ TotalBytes(abs[1]) <= B
    /\ isonheap(objs[1])

(***************************************************************************)
(* C4: with push_back only, fullsize() is the sum of len + 1 over the      *)
(* pushed strings, in place, across the transition and across growths.     *)
(***************************************************************************)
C4_FullsizeIsTotal == FullsizeOf(1) = TotalBytes(abs[1])

\* A push that evicted inline strings at the transition and one that grew
\* the block have both happened.
C4_Witness ==
    /\ last.op = "push"
    /\ isonheap(objs[1])
    /\ \E p \in BlockIds : blocks[p].st = "freed"
    /\ inplace_decode(objs[1]).nfields >= 1
    /\ Len(abs[1]) >= 4


(***************************************************************************)
(* C5: for every n <= size(), resize(n) leaves size() = n and v[i]         *)
(* unchanged for every i < n.                                              *)
(***************************************************************************)
C5_ResizeTruncates ==
    [][(last'.op = "resize" /\ steps' # steps)
        => /\ SizeOf(1)' = last'.n
           /\ \A i \in 0..(last'.n - 1) : Elem(1, i)' = Elem(1, i)]_vars

(***************************************************************************)
(* C6: pop_back on a non-empty ssv removes exactly the last string: size() *)
(* is one less, every remaining v[i] is unchanged, and a later push_back   *)
(* appends after the remaining strings.                                    *)
(***************************************************************************)
C6_PopRemovesLast ==
    [][/\ (last'.op = "pop" /\ steps' # steps)
          => /\ SizeOf(1)' = SizeOf(1) - 1
             /\ \A i \in 0..(SizeOf(1) - 2) : Elem(1, i)' = Elem(1, i)
       /\ (last.op = "pop" /\ last'.op = "push" /\ steps' # steps)
          => /\ ub' = "none"
             /\ SizeOf(1)' = SizeOf(1) + 1
             /\ \A k \in 0..MaxSeq : k = SizeOf(1) => Elem(1, k)' = Str(last'.n)
             /\ \A i \in 0..(SizeOf(1) - 1) : Elem(1, i)' = Elem(1, i)]_vars

(***************************************************************************)
(* An instance that holds what the plain sequence holds: the sources of    *)
(* the copies and moves below are such instances.                          *)
(***************************************************************************)
WellFormed(o) ==
    /\ objs[o].live
    /\ SizeOf(o) = Len(abs[o])
    /\ FullsizeOf(o) = TotalBytes(abs[o])
    /\ \A i \in 1..Len(abs[o]) : Elem(o, i - 1) = abs[o][i]

SameContents(o1, o2) ==
    /\ SizeOf(o1) = SizeOf(o2)
    /\ FullsizeOf(o1) = FullsizeOf(o2)
    /\ \A i \in 0..(SizeOf(o2) - 1) : Elem(o1, i) = Elem(o2, i)

(***************************************************************************)
(* C7: a copy b of a, by copy construction or copy assignment, has a's     *)
(* size, fullsize and elements, in every configuration; and a push_back,   *)
(* pop_back, resize or clear on one instance leaves the other's size,      *)
(* fullsize and elements unchanged.                                        *)
(***************************************************************************)
C7_CopyEqualAndIndependent ==
    [][/\ \A d, s \in Objs :
            (/\ last'.op \in {"copy-construct", "copy-assign"} /\ steps' # steps
             /\ last'.obj = d /\ last'.src = s /\ WellFormed(s))
            => SameContents(d, s)'
       /\ \A a \in Objs :
            (/\ last'.op \in {"push", "pop", "resize", "clear"}
             /\ last'.obj # a /\ WellFormed(a) /\ steps' # steps)
            => /\ SizeOf(a)' = SizeOf(a)
               /\ FullsizeOf(a)' = FullsizeOf(a)
               /\ \A i \in 0..(SizeOf(a) - 1) : Elem(a, i)' = Elem(a, i)]_vars

(***************************************************************************)
(* C8: after move construction or move assignment the destination has the  *)
(* size, fullsize, inplace bit and elements the source had.                *)
(***************************************************************************)
C8_MoveCarriesContents ==
    [][\A d, s \in Objs :
        (/\ last'.op \in {"move-construct", "move-assign"} /\ steps' # steps
         /\ last'.obj = d /\ last'.src = s /\ WellFormed(s))
        => /\ SizeOf(d)' = SizeOf(s)
           /\ FullsizeOf(d)' = FullsizeOf(s)
           /\ objs'[d].inplace = objs[s].inplace
           /\ \A i \in 0..(SizeOf(s) - 1) : Elem(d, i)' = Elem(s, i)]_vars

(***************************************************************************)
(* C9: after move construction the source is in place with an all-sentinel *)
(* bitmap, size() = 0, so that destroying it frees nothing.                *)
(***************************************************************************)
C9_MovedFromIsEmpty ==
    last.op = "move-construct"
        => /\ isinplace(objs[last.src])
           /\ objs[last.src].lengths = fullmask
           /\ SizeOf(last.src) = 0

(***************************************************************************)
(* C10: every live block is the spill of exactly one live instance with    *)
(* inplace = 0, free is only ever handed a live block or null (nothing is  *)
(* freed twice), no instance is left pointing at a freed block (nothing is *)
(* used after it was freed), and when no instance is left no block is left.*)
(***************************************************************************)
Owners(p) == { o \in Objs : objs[o].live /\ objs[o].inplace = 0 /\ heap(objs[o]) = p }

C10_ExclusiveOwnership ==
    /\ ub # "bad-free"
    /\ \A p \in BlockIds : blocks[p].st = "live" => Cardinality(Owners(p)) = 1
    /\ \A p \in BlockIds : blocks[p].st = "freed" => Owners(p) = {}
    /\ (\A o \in Objs : ~objs[o].live) => \A p \in BlockIds : blocks[p].st # "live"

(***************************************************************************)
(* What "observably unchanged" means for instance o across a step: the     *)
(* inplace bit, the bitmap, size(), fullsize() and every v[i] are as       *)
(* before, and the spill block it had is the one it has, live and with     *)
(* the same contents.                                                      *)
(***************************************************************************)
ObservablyUnchanged(o) ==
    /\ objs'[o].inplace = objs[o].inplace
    /\ objs'[o].lengths = objs[o].lengths
    /\ SizeOf(o)' = SizeOf(o)
    /\ FullsizeOf(o)' = FullsizeOf(o)
    /\ \A i \in 0..(SizeOf(o) - 1) : Elem(o, i)' = Elem(o, i)
    /\ objs[o].inplace = 0 =>
          /\ heap(objs'[o]) = heap(objs[o])
          /\ \A p \in BlockIds : p = heap(objs[o]) =>
                (blocks'[p] = blocks[p] /\ blocks'[p].st = "live")

(***************************************************************************)
(* C11: when the allocation inside push_back fails, at the transition or   *)
(* at a growth, the failure is signalled by the exception and the ssv is   *)
(* observably unchanged, its previous spill block still owned and live.    *)
(***************************************************************************)
C11_PushNoMemUnchanged ==
    [][\A o \in Objs :
        (last'.op = "push-nomem" /\ last'.obj = o /\ steps' # steps)
        => (ub' = "none" /\ ObservablyUnchanged(o))]_vars

C11_Witness ==
    /\ last.op = "push-nomem"
    /\ isonheap(objs[last.obj])
    /\ HeapValid(objs[last.obj], blocks)
    /\ SizeOf(last.obj) >= 1

(***************************************************************************)
(* C12: when the allocation of the duplicate block fails during the copy   *)
(* assignment b = a, the failure reaches the caller as an exception (the   *)
(* program goes on) and b holds exactly what it held before the call.      *)
(***************************************************************************)
C12_CopyAssignNoMemSurfaced ==
    [][\A b \in Objs :
        (last'.op = "copy-assign-nomem" /\ last'.obj = b /\ steps' # steps)
        => (ub' = "none" /\ ObservablyUnchanged(b))]_vars

(***************************************************************************)
(* C13: at(i) returns the i-th string, equal to v[i], exactly when         *)
(* i < size(), and throws otherwise.                                       *)
(***************************************************************************)
AtOf(o, i) == at(objs[o], blocks, i)

C13_AtChecksRange ==
    \A i \in 0..(MaxSeq + 1) :
        /\ AtOf(1, i).returns <=> i < SizeOf(1)
        /\ AtOf(1, i).returns => AtOf(1, i).val = Elem(1, i)

(***************************************************************************)
(* C14: resize(n) with n > size() throws and changes nothing: the inplace  *)
(* bit, the bitmap, heap.nstrings, the spill block and every v[i] are as   *)
(* before (the instance and the heap are the same, byte for byte); a       *)
(* resize that does not throw had n <= size().                             *)
(***************************************************************************)
C14_ResizeThrowChangesNothing ==
    [][/\ (last'.op = "resize-throw" /\ steps' # steps)
          => (ub' = "none" /\ objs' = objs /\ blocks' = blocks)
       /\ (last'.op = "resize" /\ steps' # steps) => last'.n <= SizeOf(1)]_vars

C14_Witness ==
    /\ last.op = "resize-throw"
    /\ isonheap(objs[1])
    /\ \E p \in BlockIds : blocks[p].st = "live" /\ blocks[p].nstrings >= 1
    /\ inplace_decode(objs[1]).nfields >= 1

(***************************************************************************)
(* C15: clear() leaves size() = 0, fullsize() = 0, empty() = true and      *)
(* isinplace() = true, and frees the spill block if there was one, from an *)
(* inline state, a spilled one, or a spilled one whose spill is empty.     *)
(***************************************************************************)
EmptyOf(o) == empty(objs[o], blocks)

C15_ClearEmpties ==
    [][(last'.op = "clear" /\ steps' # steps)
        => /\ ub' = "none"
           /\ SizeOf(1)' = 0
           /\ FullsizeOf(1)' = 0
           /\ EmptyOf(1)' = {TRUE}
           /\ isinplace(objs'[1])
           /\ \A p \in BlockIds : blocks'[p].st # "live"]_vars

\* Two steps: a push_back that spilled, then the clear() that freed its block.
C15_Witness ==
    /\ last.op = "clear" /\ steps = 2
    /\ isinplace(objs[1])
    /\ \E p \in BlockIds : blocks[p].st = "freed"

(***************************************************************************)
(* C16: after a successful resize(n) on an ssv with inplace = 0, if no     *)
(* spilled string survives (n <= number of inline strings) the spill block *)
(* is freed and isinplace() is true, also when the spill held no string    *)
(* before the call; if a spilled string survives, isonheap() stays true.   *)
(***************************************************************************)
C16_ResizeReleasesSpill ==
    [][(last'.op = "resize" /\ steps' # steps /\ objs[1].inplace = 0)
        => IF last'.n <= inplace_decode(objs[1]).nfields
           THEN /\ isinplace(objs'[1])
                /\ \A p \in BlockIds : p = heap(objs[1]) => blocks'[p].st = "freed"
           ELSE isonheap(objs'[1])]_vars

(***************************************************************************)
(* push_back(Str(L)); pop_back() applied to instance 1 in the current      *)
(* state.  PairDefined: the pair runs to its end (the push stays inside    *)
(* its block, and the heap of the model has a block left if it allocates). *)
(***************************************************************************)
PairOf(L) == push_then_pop(objs[1], blocks, Str(L))

PairDefined(L, r) ==
    /\ ub = "none"
    /\ AttemptsAlloc(objs[1], blocks, Str(L)) => CanAlloc(blocks)
    /\ r.ub = "none"

PairRestores(r) ==
    /\ r.o.inplace = objs[1].inplace
    /\ Size(r.o, r.blks) = SizeOf(1)
    /\ Fullsize(r.o, r.blks) = FullsizeOf(1)

C18_IterationAndRangeCopy ==
    LET q == Iterate(objs[1], blocks)
        c == RangeConstruct(q)
    IN /\ Len(q) = SizeOf(1)
       /\ \A k \in 0..(SizeOf(1) - 1) : q[k + 1] = Elem(1, k)
       /\ ~c.full =>
            /\ c.ub = "none"
            /\ Size(c.o, c.blks) = SizeOf(1)
            /\ Fullsize(c.o, c.blks) = FullsizeOf(1)
            /\ \A k \in 0..(SizeOf(1) - 1) : At(c.o, c.blks, k) = Elem(1, k)

(***************************************************************************)
(* C19: on a non-empty ssv front() is v[0] and back() is v[size() - 1],    *)
(* also when the first string is inline and the last one is in the spill.  *)
(***************************************************************************)
C19_FrontBack ==
    SizeOf(1) >= 1 =>
        /\ front(objs[1], blocks) = Elem(1, 0)
        /\ back(objs[1], blocks) = Elem(1, SizeOf(1) - 1)

C19_Witness ==
    /\ isonheap(objs[1])
    /\ inplace_decode(objs[1]).nfields >= 1
    /\ SizeOf(1) = inplace_decode(objs[1]).nfields + 1
    /\ WellFormed(1)
    /\ back(objs[1], blocks) = abs[1][Len(abs[1])]
    /\ front(objs[1], blocks) = abs[1][1]
    /\ front(objs[1], blocks) # back(objs[1], blocks)

(***************************************************************************)
(* C20: in every state with inplace = 0 the payload and the offset table   *)
(* of the spill do not overlap: payloadEnd + 8 * nstrings <= capacity -    *)
(* sizeof(header).                                                         *)
(***************************************************************************)
C20_PayloadAndTableDisjoint ==
    (objs[1].inplace = 0 /\ HeapValid(objs[1], blocks)) =>
        LET hv == blocks[heap(objs[1])]
        IN /\ UsableInBlock(hv)
           /\ heapvec_fullsize(hv) + OffSize * hv.nstrings <= hv.capacity - HeaderSize

(***************************************************************************)
(* C21: in every state with inplace = 0 the capacity of the spill block is *)
(* a power of two and at least sizeof(ssv), after the first transition and *)
(* after every growth.                                                     *)
(***************************************************************************)
IsPowerOfTwo(n) == \E k \in 0..BitWidth(n) : Pow2(k) = n

C21_CapacityPowerOfTwo ==
    (objs[1].inplace = 0 /\ HeapValid(objs[1], blocks)) =>
        LET hv == blocks[heap(objs[1])]
        IN IsPowerOfTwo(hv.capacity) /\ hv.capacity >= SizeofThis

(***************************************************************************)
(* C22: in every state with inplace = 0 the inline strings still encoded   *)
(* in the bitmap end at or before byte B - sizeof(pointer) of the inline   *)
(* buffer, so none overlaps the heap pointer; and an operation that starts *)
(* and ends with inplace = 0 writes no byte of the inline buffer outside   *)
(* the pointer slot, which still holds a block pointer, not payload.       *)
(***************************************************************************)
C22_InlinePrefixOnly ==
    [][/\ objs'[1].inplace = 0 =>
            /\ inplace_decode(objs'[1]).size <= B - PtrSize
            /\ \A i \in 0..(inplace_decode(objs'[1]).nfields - 1) :
                  Cum(inplace_decode(objs'[1]), i + 1) <= HeapOff
       /\ (objs[1].inplace = 0 /\ objs'[1].inplace = 0) =>
            /\ \A k \in DataSlot \ HeapSlot : objs'[1].store[k] = objs[1].store[k]
            /\ heap(objs'[1]) \in BlockIds]_vars

\* A spilled ssv that kept two strings inline, has two in the spill, and
\* whose spill has been reallocated by a push_back in spill mode.
C22_Witness ==
    /\ last.op = "push" /\ ub = "none"
    /\ isonheap(objs[1]) /\ HeapValid(objs[1], blocks)
    /\ inplace_decode(objs[1]).nfields = 2
    /\ blocks[heap(objs[1])].nstrings >= 2
    /\ \E p \in BlockIds : blocks[p].st = "freed"

(***************************************************************************)
(* C23: in every state reached by push_back, pop_back (on a non-empty      *)
(* ssv), resize and clear, the non-sentinel fields of the bitmap are       *)
(* contiguous at the low end (above a sentinel every field is a sentinel)  *)
(* and the sum of field + 1 over the non-sentinel fields is at most B.     *)
(***************************************************************************)
RECURSIVE InlineBytes(_, _)
InlineBytes(lens, j) ==
    IF j = 0 THEN 0
    ELSE InlineBytes(lens, j - 1)
         + (IF Field(lens, j - 1) # mask THEN Field(lens, j - 1) + 1 ELSE 0)

C23_FieldsContiguous ==
    /\ \A j \in 0..(Maxstrings - 2) :
          Field(objs[1].lengths, j) = mask => Field(objs[1].lengths, j + 1) = mask
    /\ InlineBytes(objs[1].lengths, Maxstrings) <= B

\* resize(1) after three inline pushes retired two fields and kept one.
C23_Witness ==
    /\ last.op = "resize" /\ last.n = 1 /\ steps = 4
    /\ isinplace(objs[1])
    /\ Field(objs[1].lengths, 0) # mask
    /\ Field(objs[1].lengths, 1) = mask
    /\ \A p \in BlockIds : blocks[p].st = "unalloc"

(***************************************************************************)
(* C24: a push_back of s in place that does not fit makes the transition.  *)
(* With m the first inline index whose cumulative end exceeds              *)
(* B - sizeof(pointer), or the number of inline strings if there is none:  *)
(* afterwards inplace = 0, fields 0..m-1 and their strings are unchanged   *)
(* and are the only inline ones, the spill holds the old strings           *)
(* m..nfields-1 in their order and then s, heap.nstrings is                *)
(* (nfields - m) + 1, and v[i] is what it was for every old i, with s last.*)
(***************************************************************************)
FirstPastPointer(lens, n) ==
    IF \E i \in 0..(n - 1) : InlineBytes(lens, i + 1) > B - PtrSize
    THEN CHOOSE i \in 0..(n - 1) :
            /\ InlineBytes(lens, i + 1) > B - PtrSize
            /\ \A j \in 0..(i - 1) : InlineBytes(lens, j + 1) <= B - PtrSize
    ELSE n

C24_TransitionSplitsAtPointer ==
    [][\A L \in PushLens :
        (/\ last'.op = "push" /\ last'.n = L /\ steps' # steps
         /\ TriggersTransition(objs[1], Str(L)))
        => LET n == inplace_decode(objs[1]).nfields
               m == FirstPastPointer(objs[1].lengths, n)
               hv == blocks'[heap(objs'[1])]
           IN /\ ub' = "none"
              /\ objs'[1].inplace = 0
              /\ HeapValid(objs'[1], blocks')
              /\ inplace_decode(objs'[1]).nfields = m
              /\ \A j \in 0..(m - 1) :
                    /\ Field(objs'[1].lengths, j) = Field(objs[1].lengths, j)
                    /\ InlineView(objs'[1], inplace_decode(objs'[1]), j) = Elem(1, j)
              /\ hv.nstrings = (n - m) + 1
              /\ \A i \in m..(n - 1) : heapvec_index(hv, i - m) = Elem(1, i)
              /\ heapvec_index(hv, n - m) = Str(L)
              /\ \A i \in 0..(n - 1) : At(objs'[1], blocks', i) = Elem(1, i)
              /\ At(objs'[1], blocks', n) = Str(L)]_vars

\* The state after a transition that kept inline strings and evicted one:
\* pushes only, no block freed yet.
C24_Witness ==
    /\ last.op = "push" /\ ub = "none"
    /\ isonheap(objs[1]) /\ HeapValid(objs[1], blocks)
    /\ \A p \in BlockIds : blocks[p].st # "freed"
    /\ inplace_decode(objs[1]).nfields >= 1
    /\ blocks[heap(objs[1])].nstrings >= 2
    /\ SizeOf(1) = steps
    /\ WellFormed(1)

(***************************************************************************)
(* C25: when push_back in spill mode finds L + 1 + 8 > usable(), the       *)
(* replacement block has exactly twice the old capacity, the old nstrings, *)
(* the old offsets[i] for every i < nstrings and the old payload bytes     *)
(* [0, payloadEnd), so that every spilled string reads from it as from the *)
(* old block; the old block is freed, once; and after the call, which      *)
(* appends the new string to the replacement, the ssv owns a block of      *)
(* twice the capacity with one string more and, the append having stayed   *)
(* inside the block, the same offsets, payload and strings as before.      *)
(***************************************************************************)
C25_GrowthCopiesBlock ==
    [][\A L \in PushLens :
        (/\ last'.op = "push" /\ last'.n = L /\ steps' # steps
         /\ TriggersGrowth(objs[1], blocks, Str(L)))
        => LET h == heap(objs[1])
               old == blocks[h]
               rep == Grown(old)
               new == blocks'[heap(objs'[1])]
           IN /\ rep.capacity = 2 * old.capacity
              /\ Len(rep.area) = rep.capacity - HeaderSize
              /\ rep.nstrings = old.nstrings
              /\ \A i \in 0..(old.nstrings - 1) :
                    /\ offset(rep, i) = offset(old, i)
                    /\ heapvec_index(rep, i) = heapvec_index(old, i)
              /\ heapvec_fullsize(old) <= Len(old.area)
              /\ \A k \in 1..Min(heapvec_fullsize(old), Len(old.area)) :
                    rep.area[k] = old.area[k]
              /\ ub' # "bad-free"
              /\ heap(objs'[1]) # h
              /\ blocks'[h].st = "freed"
              /\ HeapValid(objs'[1], blocks')
              /\ new.capacity = 2 * old.capacity
              /\ new.nstrings = old.nstrings + 1
              /\ objs'[1].lengths = objs[1].lengths
              /\ ub' = "none" =>
                    /\ \A i \in 0..(old.nstrings - 1) :
                          /\ offset(new, i) = offset(old, i)
                          /\ heapvec_index(new, i) = heapvec_index(old, i)
                    /\ \A k \in 1..Min(heapvec_fullsize(old), Len(old.area)) :
                          new.area[k] = old.area[k]
                    /\ \A i \in 0..(SizeOf(1) - 1) :
                          At(objs'[1], blocks', i) = Elem(1, i)]_vars

\* The spill has been reallocated twice, the second time with at least two
\* strings in it, and every string reads as pushed.
C25_Witness ==
    /\ last.op = "push" /\ ub = "none"
    /\ isonheap(objs[1]) /\ HeapValid(objs[1], blocks)
    /\ Cardinality({p \in BlockIds : blocks[p].st = "freed"}) = 2
    /\ blocks[heap(objs[1])].nstrings >= 3
    /\ blocks[heap(objs[1])].capacity >= 160
    /\ WellFormed(1)

(***************************************************************************)
(* C26: while inplace = 0, push_back changes neither the bitmap nor the    *)
(* inline bytes (only the pointer slot, when the block is replaced) and    *)
(* puts the new string in the spill, also when the inline region has free  *)
(* bytes and a free field for it.                                          *)
(***************************************************************************)
C26_SpillPushLeavesInline ==
    [][\A L \in SeqLens :
        (/\ last'.op = "push" /\ last'.n = L /\ steps' # steps
         /\ objs[1].inplace = 0)
        => LET old == blocks[heap(objs[1])]
               new == blocks'[heap(objs'[1])]
           IN /\ objs'[1].inplace = 0
              /\ objs'[1].lengths = objs[1].lengths
              /\ \A k \in DataSlot \ HeapSlot : objs'[1].store[k] = objs[1].store[k]
              /\ ub' = "none" =>
                    /\ HeapValid(objs'[1], blocks')
                    /\ new.nstrings = old.nstrings + 1
                    /\ offset(new, old.nstrings)
                          = heapvec_fullsize(old) + L + 1
                    /\ \A k \in 1..L :
                          new.area[heapvec_fullsize(old) + k] = Str(L)[k]]_vars

\* A string that would have fitted in place (no inline string, a free
\* field) was pushed in spill mode and is the second string of the spill.
C26_Witness ==
    /\ last.op = "push" /\ last.n = 2 /\ ub = "none"
    /\ isonheap(objs[1]) /\ HeapValid(objs[1], blocks)
    /\ inplace_decode(objs[1]).nfields = 0
    /\ blocks[heap(objs[1])].nstrings = 2
    /\ Elem(1, 1) = Str(2)

(***************************************************************************)
(* C27: pop_back on an ssv with inplace = 0 leaves the inplace bit at 0,   *)
(* the bitmap and the inline bytes unchanged, and the spill block the same *)
(* block, live, with its capacity and bytes unchanged, also when it        *)
(* removes the last string of the spill; only heap.nstrings goes down.     *)
(***************************************************************************)
C27_PopDoesNotShrink ==
    [][(last'.op = "pop" /\ steps' # steps /\ objs[1].inplace = 0)
        => /\ ub' = "none"
           /\ objs'[1] = objs[1]
           /\ \A p \in BlockIds :
                 /\ blocks'[p].st = blocks[p].st
                 /\ blocks'[p].capacity = blocks[p].capacity
                 /\ blocks'[p].area = blocks[p].area
                 /\ p # heap(objs[1]) => blocks'[p].nstrings = blocks[p].nstrings
                 /\ (p = heap(objs[1]) /\ blocks[p].nstrings >= 1)
                       => blocks'[p].nstrings = blocks[p].nstrings - 1
           /\ HeapValid(objs'[1], blocks')]_vars

\* push_back of B bytes, then the pop_back that empties the spill.
C27_Witness ==
    /\ last.op = "pop" /\ steps = 2 /\ ub = "none"
    /\ isonheap(objs[1]) /\ HeapValid(objs[1], blocks)
    /\ blocks[heap(objs[1])].nstrings = 0
    /\ blocks[heap(objs[1])].capacity >= SizeofThis
    /\ SizeOf(1) = 0

(***************************************************************************)
(* C28: the regions exchanged by move construction, move assignment and    *)
(* copy assignment (datasmol, the heap pointer, the index word) cover      *)
(* every byte of data[0, B) in every configuration, so that an in-place    *)
(* ssv whose strings fill all B bytes arrives byte for byte.               *)
(***************************************************************************)
C28_SwapCoversInlineBuffer ==
    [][\A d, s \in Objs :
        (/\ last'.op \in {"move-construct", "move-assign", "copy-assign"}
         /\ steps' # steps /\ last'.obj = d /\ last'.src = s
         /\ objs[s].live /\ objs[s].inplace = 1
         /\ inplace_decode(objs[s]).size = B)
        => /\ DataSlot \subseteq (SmolSlot \cup HeapSlot)
           /\ objs'[d].inplace = 1
           /\ objs'[d].lengths = objs[s].lengths
           /\ \A k \in DataSlot : objs'[d].store[k] = objs[s].store[k]]_vars

(***************************************************************************)
(* C29: in every state reached by push_back, pop_back (on a non-empty      *)
(* ssv), resize and clear, empty() is true exactly when size() = 0; an ssv *)
(* with inplace = 0, an empty spill and inline strings is not empty.       *)
(***************************************************************************)
C29_EmptyIffSizeZero == EmptyOf(1) = { SizeOf(1) = 0 }

(***************************************************************************)
(* C30: in every configuration, also with B >= 256 where a field has more  *)
(* than 8 bits, inplace_decode returns every field as stored, counts as    *)
(* strings exactly the fields that are not the sentinel, and sums their    *)
(* lengths + 1 without wrapping; so a default-constructed ssv has          *)
(* size() = 0 and fullsize() = 0, and a string pushed in place reads back  *)
(* with its length.                                                        *)
(***************************************************************************)
C30_DecodeIsExact ==
    LET d == inplace_decode(objs[1])
        lens == objs[1].lengths
    IN /\ \A j \in 0..(Maxstrings - 1) : d.lenarray[j + 1] = Field(lens, j)
       /\ d.nfields = Cardinality({j \in 0..(Maxstrings - 1) : Field(lens, j) # mask})
       /\ d.size = InlineBytes(lens, Maxstrings)
       /\ steps = 0 => (SizeOf(1) = 0 /\ FullsizeOf(1) = 0)
       /\ (steps = 1 /\ last.op = "push" /\ last.n < B) =>
             (SizeOf(1) = 1 /\ Len(Elem(1, 0)) = last.n)

====
